---- MODULE Spec2Model ----
(***************************************************************************)
(* Model of sweep.py: a driver that runs an external benchmark command for *)
(* every (part size, connections per vip) combination and prints a         *)
(* tab-separated table of the peak throughput of each run.                 *)
(*                                                                         *)
(* Text is a sequence of atoms: an atom is one character ("5", "K", " ")   *)
(* or a literal the program writes or passes as a unit ("--part-size",     *)
(* "part size", "failed (").  A str is such a sequence; a list of str is a *)
(* sequence of them.                                                       *)
(***************************************************************************)
EXTENDS Integers, Sequences, FiniteSets, TLC

\* ------------------------------------------------------------------ bounds
\* Longest size token enumerated for expand_size.
MaxTokLen == 3
\* Most fragments concatenated into one captured output for run_once.
MaxChunks == 3
\* Most part-size tokens of an enumerated sweep.
MaxParts == 2
\* Most connection counts of an enumerated sweep.
MaxConns == 2
\* Integers n for which the token str(n) + suffix is checked against n.
MaxInt == 20

\* ------------------------------------------------------------------ text
\* a text is the sequence of its characters
Text == Seq(STRING)

TAB == <<"\t">>
NL == <<"\n">>

DigitChars == <<"0", "1", "2", "3", "4", "5", "6", "7", "8", "9">>

IsDigit(c) == \E d \in 1..10 : DigitChars[d] = c

DigitVal(c) == (CHOOSE d \in 1..10 : DigitChars[d] = c) - 1

\* str.isspace() for the characters of the model
IsSpace(c) == c \in {" ", "\t", "\n"}

RECURSIVE Concat(_)
\* "".join(parts)
Concat(parts) ==
    IF parts = <<>> THEN <<>> ELSE Head(parts) \o Concat(Tail(parts))

Front(s) == SubSeq(s, 1, Len(s) - 1)

\* s[:-1]: everything but the last character; "" stays ""
DropLast(s) == IF Len(s) = 0 THEN <<>> ELSE Front(s)

\* s.endswith(c) for a one-character c
EndsWith(s, c) == Len(s) > 0 /\ s[Len(s)] = c

IsPrefix(p, s) == Len(p) <= Len(s) /\ SubSeq(s, 1, Len(p)) = p

IsSuffix(p, s) == Len(p) <= Len(s) /\ SubSeq(s, Len(s) - Len(p) + 1, Len(s)) = p

Pow10(k) ==
    LET p[e \in 0..k] == IF e = 0 THEN 1 ELSE 10 * p[e - 1]
    IN  p[k]

\* ------------------------------------------------------------------ str(int)
\* the decimal digits of a natural number, most significant first
NatStr(n) ==
    LET digits[m \in Nat] ==
            IF m < 10 THEN <<DigitChars[m + 1]>>
            ELSE digits[m \div 10] \o <<DigitChars[(m % 10) + 1]>>
    IN  digits[n]

\* str(n) of a Python int: decimal digits, "-" in front of a negative
Str(n) == IF n < 0 THEN <<"-">> \o NatStr(0 - n) ELSE NatStr(n)

\* ------------------------------------------------------------------ int(str)
LStrip(s) ==
    LET first[k \in 1..(Len(s) + 1)] ==
            IF k <= Len(s) /\ IsSpace(s[k]) THEN first[k + 1] ELSE k
    IN  SubSeq(s, first[1], Len(s))

RStrip(s) ==
    LET last[k \in 0..Len(s)] ==
            IF k >= 1 /\ IsSpace(s[k]) THEN last[k - 1] ELSE k
    IN  SubSeq(s, 1, last[Len(s)])

Strip(s) == RStrip(LStrip(s))

\* digits, single underscores allowed between two digits
ValidDigits(s) ==
    /\ Len(s) > 0
    /\ IsDigit(s[1])
    /\ IsDigit(s[Len(s)])
    /\ \A i \in 1..Len(s) : IsDigit(s[i]) \/ s[i] = "_"
    /\ \A i \in 1..(Len(s) - 1) : ~(s[i] = "_" /\ s[i + 1] = "_")

\* value of a valid digit string, read left to right from acc, underscores skipped
DigitsValue(s, acc) ==
    LET value[k \in 0..Len(s)] ==
            IF k = 0 THEN acc
            ELSE IF s[k] = "_" THEN value[k - 1]
            ELSE value[k - 1] * 10 + DigitVal(s[k])
    IN  value[Len(s)]

\* the digits of an int literal: [ok, val]
Magnitude[body \in Text] ==
    IF ValidDigits(body)
    THEN [ok |-> TRUE, val |-> DigitsValue(body, 0)]
    ELSE [ok |-> FALSE, val |-> 0]

\* an int literal without the whitespace around it: an optional sign, then digits
IntLiteral[t \in Text] ==
    IF t # <<>> /\ Head(t) = "-"
    THEN [Magnitude[Tail(t)] EXCEPT !.val = 0 - @]
    ELSE IF t # <<>> /\ Head(t) = "+" THEN Magnitude[Tail(t)]
    ELSE Magnitude[t]

\* int(s): [ok, val]; ok = FALSE stands for the ValueError
ParseInt(s) == IntLiteral[Strip(s)]

\* str(e) of the ValueError int() raises
ValueErrorText(s) ==
    <<"invalid literal for int() with base 10: '">> \o s \o <<"'">>

Ok(v) == [ok |-> TRUE, val |-> v, kind |-> "none", err |-> <<>>]

Raise(kind, text) == [ok |-> FALSE, val |-> 0, kind |-> kind, err |-> text]

IntOrRaise(s) ==
    IF ParseInt(s).ok THEN Ok(ParseInt(s).val)
    ELSE Raise("ValueError", ValueErrorText(s))

Scale(r, m) == IF r.ok THEN Ok(r.val * m) ELSE r

\* ------------------------------------------------------------------ expand_size
\* a slip in the unit table: K taken as a decimal thousand
expand_size_decimalK(size) ==
    IF EndsWith(size, "M") THEN Scale(IntOrRaise(DropLast(size)), 1024 * 1024)
    ELSE IF EndsWith(size, "K") THEN Scale(IntOrRaise(DropLast(size)), 1000)
    ELSE IntOrRaise(size)

expand_size(size) ==
    IF EndsWith(size, "M") THEN Scale(IntOrRaise(DropLast(size)), 1024 * 1024)
    ELSE IF EndsWith(size, "K") THEN Scale(IntOrRaise(DropLast(size)), 1024)
    ELSE IntOrRaise(size)

\* ------------------------------------------------------------------ THROUGHPUT_RE
MiBs == <<"M", "i", "B", "/", "s">>

\* \d+ is greedy: the first index at or after i that holds no digit
DigitsEnd(s, i) ==
    LET stop[k \in 1..(Len(s) + 2)] ==
            IF k <= Len(s) /\ IsDigit(s[k]) THEN stop[k + 1] ELSE k
    IN  stop[i]

\* re.match of " (\d+\.\d+)MiB/s" at index i: the index after the match, 0 if none
MatchEnd(s, i) ==
    LET d1 == DigitsEnd(s, i + 1)
        d2 == DigitsEnd(s, d1 + 1)
    IN  IF /\ i <= Len(s)
           /\ s[i] = " "
           /\ d1 > i + 1
           /\ d1 <= Len(s)
           /\ s[d1] = "."
           /\ d2 > d1 + 1
           /\ d2 + 4 <= Len(s)
           /\ SubSeq(s, d2, d2 + 4) = MiBs
        THEN d2 + 5
        ELSE 0

\* THROUGHPUT_RE.findall(out) from index i: the groups of the non-overlapping
\* matches, left to right; after a match the scan goes on behind it
FindAll(s, i) ==
    LET scan[k \in 1..(Len(s) + 1)] ==
            IF k > Len(s) THEN <<>>
            ELSE IF MatchEnd(s, k) > 0
                 THEN <<SubSeq(s, k + 1, MatchEnd(s, k) - 6)>> \o scan[MatchEnd(s, k)]
                 ELSE scan[k + 1]
    IN  scan[i]

\* ------------------------------------------------------------------ float
StripZeros(s) ==
    LET last[k \in 0..Len(s)] ==
            IF k >= 1 /\ s[k] = "0" THEN last[k - 1] ELSE k
    IN  SubSeq(s, 1, last[Len(s)])

\* float(x) for x of the form digits "." digits: the value n / 10^k, with k minimal
FloatOf(x) ==
    LET dot == CHOOSE d \in 1..Len(x) : x[d] = "."
        ip == SubSeq(x, 1, dot - 1)
        fp == StripZeros(SubSeq(x, dot + 1, Len(x)))
    IN  [n |-> DigitsValue(ip \o fp, 0), k |-> Len(fp)]

FloatLess(a, b) == a.n * Pow10(b.k) < b.n * Pow10(a.k)

\* s with zeros in front up to k characters
ZeroPad(s, k) ==
    IF Len(s) >= k THEN s ELSE [x \in 1..(k - Len(s)) |-> "0"] \o s

\* repr(f) of a float, as print() writes it
FloatRepr(f) ==
    NatStr(f.n \div Pow10(f.k)) \o <<".">>
        \o (IF f.k = 0 THEN <<"0">> ELSE ZeroPad(NatStr(f.n % Pow10(f.k)), f.k))

\* max(items): the items are taken in order and the best so far is replaced
\* only by a larger one
Max(items) ==
    LET best[k \in 1..Len(items)] ==
            IF k = 1 THEN items[1]
            ELSE IF FloatLess(best[k - 1], items[k]) THEN items[k] ELSE best[k - 1]
    IN  best[Len(items)]

Floats(m) == [x \in 1..Len(m) |-> FloatOf(m[x])]

\* ------------------------------------------------------------------ bytes.decode
\* The output of the command is a sequence of bytes.  An ASCII byte is written
\* as its character; "<C3>" "<A9>" is the two-byte encoding of the character
\* "<U+E9>"; "<FF>" is a byte no UTF-8 text holds.
Push(c, r) == IF r.ok THEN [r EXCEPT !.val = <<c>> \o @] ELSE r

\* str(e) of the UnicodeDecodeError, with the offset of the byte
DecodeErrorText(pos) ==
    <<"'utf-8' codec can't decode byte in position ">> \o Str(pos)

\* bytes.decode("utf-8"), strict: the text, or UnicodeDecodeError at the first
\* byte that starts no valid sequence
Decode(b) ==
    LET dec[k \in 1..(Len(b) + 1)] ==
            IF k > Len(b) THEN Ok(<<>>)
            ELSE IF b[k] = "<C3>"
                 THEN IF k < Len(b) /\ b[k + 1] = "<A9>"
                      THEN Push("<U+E9>", dec[k + 2])
                      ELSE Raise("UnicodeDecodeError", DecodeErrorText(k - 1))
            ELSE IF b[k] \in {"<A9>", "<FF>"}
                 THEN Raise("UnicodeDecodeError", DecodeErrorText(k - 1))
            ELSE Push(b[k], dec[k + 1])
    IN  dec[1]

\* ------------------------------------------------------------------ run_once
\* line 15: the list that is spawned; cmd + [...] builds a new list
run_once_cmd(cmd, part_size, connections_per_vip) ==
    cmd \o << <<"--part-size">>, Str(part_size),
              <<"--connections-per-vip">>, Str(connections_per_vip) >>

\* line 17: m = THROUGHPUT_RE.findall(out)
Matches[out \in Text] == FindAll(out, 1)

\* a slip in the parse: the last reading instead of the largest
parse_throughput_last(out) ==
    LET m == Matches[out]
    IN  IF m = <<>> THEN Raise("Exception", <<"No throughput found">>)
        ELSE Ok(Floats(m)[Len(m)])

\* lines 18-21: no match is an error, otherwise the largest reading
Throughput[m \in Seq(Text)] ==
    IF m = <<>> THEN Raise("Exception", <<"No throughput found">>)
    ELSE Ok(Max(Floats(m)))

\* lines 17-21: the readings of the captured output and their maximum
parse_throughput(out) == Throughput[Matches[out]]

\* lines 16-21 once the command has exited with status 0 and printed the bytes b
run_once_output(b) ==
    IF Decode(b).ok THEN parse_throughput(Decode(b).val) ELSE Decode(b)

\* ------------------------------------------------------------------ state
VARIABLES
    pc,             \* where the driver is
    part_size,      \* args.part_size: [none, list]; none = the option was not given
    connections,    \* args.connections_per_vip, likewise
    rest,           \* the second result of parse_known_args
    cmd,            \* the cmd argument of run_sweep: the command template
    i,              \* position of the outer loop in args.part_size
    j,              \* position of the inner loop in args.connections_per_vip
    line_buffered,  \* sys.stdout is a terminal (print flushes at each newline)
    stdout,         \* [out: text that reached standard output, buf: text still in sys.stdout]
    running,        \* external processes in flight
    spawned,        \* every external process started so far, in order
    trials,         \* every trial begun so far, in order, with its outcome
    uncaught,       \* the exception that ended the process, "none" otherwise
    fn_arg,         \* argument of the function under test
    fn_res          \* its result

sweepVars ==
    <<part_size, connections, rest, cmd, i, j, line_buffered, stdout, running,
      spawned, trials, uncaught>>

vars == <<pc, sweepVars, fn_arg, fn_res>>

\* ------------------------------------------------------------------ inputs
NoList == [none |-> TRUE, list |-> <<>>]

Given(l) == [none |-> FALSE, list |-> l]

\* the lists of 1..n distinct values of S
Lists(S, n) ==
    {l \in UNION {[1..m -> S] : m \in 1..n} :
        \A a, b \in 1..Len(l) : a # b => l[a] # l[b]}

\* --part-size values used by the sweeps: "512K", "1M" and the malformed "1G"
SweepTokens == {<<"5", "1", "2", "K">>, <<"1", "M">>, <<"1", "G">>}

ConnValues == {10, 20}

\* nargs="+" gives a list of one or more values, or None when the option is absent
PartSizeArgs == {NoList} \cup {Given(l) : l \in Lists(SweepTokens, MaxParts)}

ConnectionsArgs == {NoList} \cup {Given(l) : l \in Lists(ConnValues, MaxConns)}

Separator == <<"--">>

RestArgs ==
    { <<>>,
      <<Separator>>,
      << <<"prog">> >>,
      << <<"--foo">>, Separator, <<"prog">> >>,
      <<Separator, <<"nosuch">> >>,
      <<Separator, <<"prog">>, <<"--region">>, <<"us-west-2">> >> }

\* the programs the operating system can start
Executables == { <<"prog">> }

ExitCodes == {0, 1}

Reading(ip, fp) == <<" ">> \o ip \o <<".">> \o fp \o MiBs

\* what the external command prints in a sweep: no reading, two readings, or a
\* reading among bytes that are no UTF-8
SweepOutputs ==
    { <<"f", "i", "n", "i", "<C3>", "<A9>", "\n">>,
      <<".", ".", ".">> \o Reading(<<"1", "2", "3">>, <<"4", "5">>) \o <<" ", ".", ".", ".">>
          \o Reading(<<"2", "0", "0">>, <<"0", "0">>),
      Reading(<<"7">>, <<"5">>) \o <<"<FF>">> }

\* ------------------------------------------------------------------ sys.stdout
Header ==
    <<"part size">> \o TAB \o <<"connections per vip">> \o TAB \o <<"max throughput">>

Prefix(token, conn) == token \o TAB \o Str(conn) \o TAB

FailedText(err) == <<"failed (">> \o err \o <<")">>

Write(st, text) == [out |-> st.out, buf |-> st.buf \o text]

\* a driver that forgets to flush
Flush_missing(st) == st

\* sys.stdout.flush()
Flush(st) == [out |-> st.out \o st.buf, buf |-> <<>>]

\* print(text): the text and a newline; a terminal is flushed at the newline
PrintLine(st, text) ==
    IF line_buffered THEN Flush(Write(st, text \o NL)) ELSE Write(st, text \o NL)

\* ------------------------------------------------------------------ exceptions
ExceptionKinds ==
    {"Exception", "ValueError", "UnicodeDecodeError", "FileNotFoundError",
     "CalledProcessError", "IndexError", "TypeError"}

\* a handler that expects only the error run_once raises itself
Caught_narrow(kind) == kind = "Exception"

\* line 40: except Exception catches every subclass of Exception
Caught(kind) == kind \in ExceptionKinds

\* str(e) of subprocess.CalledProcessError; the repr of the argument list is
\* kept as one atom
CalledProcessErrorText(argv, code) ==
    <<"Command '[...]' returned non-zero exit status ">> \o Str(code) \o <<".">>

\* subprocess starts argv[0]: it exists or FileNotFoundError is raised
Popen(argv) ==
    IF Head(argv) \in Executables THEN Ok(0)
    ELSE Raise("FileNotFoundError",
               <<"[Errno 2] No such file or directory: '">> \o Head(argv) \o <<"'">>)

\* the interpreter ends: whatever sys.stdout still holds is flushed
AtExit(st) == Flush(st)

\* ------------------------------------------------------------------ main
\* a check that only looks for the separator somewhere among the arguments
MainCheck_anywhere(r) ==
    IF r = <<>> THEN "IndexError"
    ELSE IF \A x \in 1..Len(r) : r[x] # Separator THEN "Exception"
    ELSE "none"

\* lines 49-50: cmd[0] of an empty list raises IndexError; a first token that is
\* not "--" raises Exception("missing remaining args")
MainCheck(r) ==
    IF r = <<>> THEN "IndexError"
    ELSE IF r[1] # Separator THEN "Exception"
    ELSE "none"

Main ==
    /\ pc = "main"
    /\ IF MainCheck(rest) # "none"
       THEN /\ uncaught' = MainCheck(rest)
            /\ stdout' = AtExit(stdout)
            /\ pc' = "terminated"
            /\ cmd' = cmd
       ELSE /\ cmd' = Tail(rest)
            /\ pc' = "run_sweep"
            /\ UNCHANGED <<uncaught, stdout>>
    /\ UNCHANGED <<part_size, connections, rest, i, j, line_buffered, running,
                   spawned, trials, fn_arg, fn_res>>

\* ------------------------------------------------------------------ run_sweep
\* line 32
PrintHeader ==
    /\ pc = "run_sweep"
    /\ stdout' = PrintLine(stdout, Header)
    /\ i' = 0
    /\ pc' = "for_part_size"
    /\ UNCHANGED <<part_size, connections, rest, cmd, j, line_buffered, running,
                   spawned, trials, uncaught, fn_arg, fn_res>>

\* an inner sequence that is consumed once (an iterator instead of a list): the
\* second part size finds it exhausted
ForPartSize_exhausted ==
    /\ pc = "for_part_size"
    /\ IF part_size.none
       THEN /\ uncaught' = "TypeError"
            /\ stdout' = AtExit(stdout)
            /\ pc' = "terminated"
            /\ UNCHANGED <<i, j>>
       ELSE IF i < Len(part_size.list)
       THEN /\ i' = i + 1
            /\ j' = j
            /\ pc' = "for_connections"
            /\ UNCHANGED <<uncaught, stdout>>
       ELSE /\ stdout' = AtExit(stdout)
            /\ pc' = "terminated"
            /\ UNCHANGED <<i, j, uncaught>>
    /\ UNCHANGED <<part_size, connections, rest, cmd, line_buffered, running,
                   spawned, trials, fn_arg, fn_res>>

\* a header printed inside the outer loop: once per part size
ForPartSize_header ==
    /\ pc = "for_part_size"
    /\ IF part_size.none
       THEN /\ uncaught' = "TypeError"
            /\ stdout' = AtExit(stdout)
            /\ pc' = "terminated"
            /\ UNCHANGED <<i, j>>
       ELSE IF i < Len(part_size.list)
       THEN /\ i' = i + 1
            /\ j' = 0
            /\ pc' = "for_connections"
            /\ stdout' = IF i > 0 THEN PrintLine(stdout, Header) ELSE stdout
            /\ UNCHANGED uncaught
       ELSE /\ stdout' = AtExit(stdout)
            /\ pc' = "terminated"
            /\ UNCHANGED <<i, j, uncaught>>
    /\ UNCHANGED <<part_size, connections, rest, cmd, line_buffered, running,
                   spawned, trials, fn_arg, fn_res>>

\* line 33: the outer loop takes its next token, or run_sweep and main return;
\* iterating None raises TypeError outside any handler
ForPartSize ==
    /\ pc = "for_part_size"
    /\ IF part_size.none
       THEN /\ uncaught' = "TypeError"
            /\ stdout' = AtExit(stdout)
            /\ pc' = "terminated"
            /\ UNCHANGED <<i, j>>
       ELSE IF i < Len(part_size.list)
       THEN /\ i' = i + 1
            /\ j' = 0
            /\ pc' = "for_connections"
            /\ UNCHANGED <<uncaught, stdout>>
       ELSE /\ stdout' = AtExit(stdout)
            /\ pc' = "terminated"
            /\ UNCHANGED <<i, j, uncaught>>
    /\ UNCHANGED <<part_size, connections, rest, cmd, line_buffered, running,
                   spawned, trials, fn_arg, fn_res>>

\* line 34: the inner loop takes its next count, or the outer loop goes on
ForConnections ==
    /\ pc = "for_connections"
    /\ IF connections.none
       THEN /\ uncaught' = "TypeError"
            /\ stdout' = AtExit(stdout)
            /\ pc' = "terminated"
            /\ j' = j
       ELSE IF j < Len(connections.list)
       THEN /\ j' = j + 1
            /\ pc' = "write_prefix"
            /\ UNCHANGED <<uncaught, stdout>>
       ELSE /\ pc' = "for_part_size"
            /\ UNCHANGED <<j, uncaught, stdout>>
    /\ UNCHANGED <<part_size, connections, rest, cmd, i, line_buffered, running,
                   spawned, trials, fn_arg, fn_res>>

Trial(token, conn) == [token |-> token, conn |-> conn, kind |-> "pending", text |-> <<>>]

\* lines 35-36: the row's first two columns, written and flushed
WritePrefix ==
    /\ pc = "write_prefix"
    /\ stdout' = Flush(Write(stdout, Prefix(part_size.list[i], connections.list[j])))
    /\ trials' = Append(trials, Trial(part_size.list[i], connections.list[j]))
    /\ pc' = "try"
    /\ UNCHANGED <<part_size, connections, rest, cmd, i, j, line_buffered, running,
                   spawned, uncaught, fn_arg, fn_res>>

Finish(kind, text) ==
    [trials EXCEPT ![Len(trials)] = [@ EXCEPT !.kind = kind, !.text = text]]

\* lines 40-41: the handler of the trial; an exception it does not catch ends
\* the process
Except(e) ==
    IF Caught(e.kind)
    THEN /\ stdout' = PrintLine(stdout, FailedText(e.err))
         /\ trials' = Finish(e.kind, e.err)
         /\ pc' = "for_connections"
         /\ uncaught' = uncaught
    ELSE /\ stdout' = AtExit(stdout)
         /\ trials' = Finish(e.kind, <<>>)
         /\ pc' = "terminated"
         /\ uncaught' = e.kind

\* a driver that would keep the flags of a trial in the template
NewTemplate_extended(template, argv) == argv

\* line 15 rebinds run_once's own name cmd: the list run_sweep holds is unchanged
NewTemplate(template, argv) == template

\* a driver that would hand the command a size of 0 when the token is malformed
Expand_lenient(token) == IF expand_size(token).ok THEN expand_size(token) ELSE Ok(0)

\* line 38: the argument expand_size(part_size) is evaluated before run_once is called
Expand(token) == expand_size(token)

\* line 38 up to the wait in line 16: expand the token, build the command, start it
Try ==
    /\ pc = "try"
    /\ \E e \in {Expand(part_size.list[i])} :
        IF ~e.ok
        THEN Except(e) /\ UNCHANGED <<cmd, running, spawned>>
        ELSE \E argv \in {run_once_cmd(cmd, e.val, connections.list[j])} :
            IF ~Popen(argv).ok
            THEN Except(Popen(argv)) /\ cmd' = NewTemplate(cmd, argv)
                 /\ UNCHANGED <<running, spawned>>
            ELSE /\ running' = Append(running, [k |-> Len(trials), argv |-> argv])
                 /\ spawned' = Append(spawned, [k |-> Len(trials), argv |-> argv])
                 /\ cmd' = NewTemplate(cmd, argv)
                 /\ pc' = "waiting"
                 /\ UNCHANGED <<stdout, trials, uncaught>>
    /\ UNCHANGED <<part_size, connections, rest, i, j, line_buffered, fn_arg, fn_res>>

\* line 16 from the exit of the process, lines 17-21, then line 39 or 40-41
WaitExit ==
    /\ pc = "waiting"
    /\ running # <<>>
    /\ \E code \in ExitCodes, o \in SweepOutputs :
        \E r \in {IF code # 0
                  THEN Raise("CalledProcessError",
                             CalledProcessErrorText(Head(running).argv, code))
                  ELSE run_once_output(o)} :
            /\ running' = Tail(running)
            /\ IF r.ok
               THEN \E throughput \in {FloatRepr(r.val)} :
                    /\ stdout' = PrintLine(stdout, throughput)
                    /\ trials' = Finish("ok", throughput)
                    /\ pc' = "for_connections"
                    /\ uncaught' = uncaught
               ELSE Except(r)
    /\ UNCHANGED <<part_size, connections, rest, cmd, i, j, line_buffered, spawned,
                   fn_arg, fn_res>>

\* ------------------------------------------------------------------ specification
Init ==
    /\ pc = "main"
    /\ part_size \in PartSizeArgs
    /\ connections \in ConnectionsArgs
    /\ rest \in RestArgs
    /\ line_buffered \in BOOLEAN
    /\ cmd = <<>>
    /\ i = 0
    /\ j = 0
    /\ stdout = [out |-> <<>>, buf |-> <<>>]
    /\ running = <<>>
    /\ spawned = <<>>
    /\ trials = <<>>
    /\ uncaught = "none"
    /\ fn_arg = <<>>
    /\ fn_res = Ok(0)

Next ==
    \/ Main
    \/ PrintHeader
    \/ ForPartSize
    \/ ForConnections
    \/ WritePrefix
    \/ Try
    \/ WaitExit

Spec == Init /\ [][Next]_vars

\* the driver's steps are taken as long as one is possible, and every external
\* process exits
SpecLive == Init /\ [][Next]_vars /\ WF_vars(Next)

\* ------------------------------------------------------------------ expand_size alone
TokenChars == {"0", "1", "5", "K", "M", "k", "G", "-", "+", "_", " "}

SizeTokens ==
    UNION {[1..m -> TokenChars] : m \in 0..MaxTokLen}
    \cup {<<"5", "1", "2", "K">>}
    \cup {Str(n) \o sfx : n \in (0 - MaxInt)..MaxInt, sfx \in {<<>>, <<"K">>, <<"M">>}}

Idle ==
    /\ part_size = NoList
    /\ connections = NoList
    /\ rest = <<>>
    /\ line_buffered = FALSE
    /\ cmd = <<>>
    /\ i = 0
    /\ j = 0
    /\ stdout = [out |-> <<>>, buf |-> <<>>]
    /\ running = <<>>
    /\ spawned = <<>>
    /\ trials = <<>>
    /\ uncaught = "none"

InitExpand ==
    /\ pc = "expand_size"
    /\ fn_arg \in SizeTokens
    /\ fn_res = Ok(0)
    /\ Idle

\* lines 23-29
ExpandSize ==
    /\ pc = "expand_size"
    /\ fn_res' = expand_size(fn_arg)
    /\ pc' = "expand_size_done"
    /\ UNCHANGED <<sweepVars, fn_arg>>

NextExpand == ExpandSize

SpecExpand == InitExpand /\ [][NextExpand]_vars

\* ------------------------------------------------------------------ run_once's parse alone
OutputChunks ==
    { Reading(<<"1">>, <<"5">>),
      Reading(<<"2", "0">>, <<"2", "5">>),
      Reading(<<"3">>, <<"0">>),
      <<"x">>,
      <<"\n">>,
      <<" ", "4">>,
      <<"7", ".", "5">> \o MiBs,
      <<" ", "1", ".">> \o MiBs,
      <<" ", "9", ".", "9", "M", "B", "/", "s">>,
      <<"<C3>", "<A9>">>,
      <<"<FF>">> }

CapturedOutputs ==
    {Concat(c) : c \in UNION {[1..m -> OutputChunks] : m \in 0..MaxChunks}}

InitRunOnce ==
    /\ pc = "run_once"
    /\ fn_arg \in CapturedOutputs
    /\ fn_res = Ok(0)
    /\ Idle

\* lines 16-21, on the output of a command that exited with status 0
RunOnceParse ==
    /\ pc = "run_once"
    /\ fn_res' = run_once_output(fn_arg)
    /\ pc' = "run_once_done"
    /\ UNCHANGED <<sweepVars, fn_arg>>

NextRunOnce == RunOnceParse

SpecRunOnce == InitRunOnce /\ [][NextRunOnce]_vars

\* ------------------------------------------------------------------ claims: expand_size
\* "an integer": what int() accepts
IsInteger(s) == ParseInt(s).ok

IntegerValue(s) == ParseInt(s).val

IntegerWithUnit(t, unit) == EndsWith(t, unit) /\ IsInteger(DropLast(t))

\* C6: expand_size maps an integer n followed by "M" to n * 1048576, an integer n
\* followed by "K" to n * 1024 and a plain integer n to n ("512K" to 524288);
\* every other token (lowercase or other suffixes, a bare "K" or "M", no valid
\* integer in front) fails with the parse error and gives no value.
C6_ExpandSize ==
    pc = "expand_size_done" =>
        /\ IntegerWithUnit(fn_arg, "M") =>
               fn_res.ok /\ fn_res.val = IntegerValue(DropLast(fn_arg)) * 1048576
        /\ IntegerWithUnit(fn_arg, "K") =>
               fn_res.ok /\ fn_res.val = IntegerValue(DropLast(fn_arg)) * 1024
        /\ IsInteger(fn_arg) => fn_res.ok /\ fn_res.val = IntegerValue(fn_arg)
        /\ \A n \in (0 - MaxInt)..MaxInt :
               /\ fn_arg = Str(n) \o <<"M">> => fn_res.ok /\ fn_res.val = n * 1048576
               /\ fn_arg = Str(n) \o <<"K">> => fn_res.ok /\ fn_res.val = n * 1024
               /\ fn_arg = Str(n) => fn_res.ok /\ fn_res.val = n
        /\ fn_arg = <<"5", "1", "2", "K">> => fn_res.ok /\ fn_res.val = 524288
        /\ ( /\ ~IntegerWithUnit(fn_arg, "M")
             /\ ~IntegerWithUnit(fn_arg, "K")
             /\ ~IsInteger(fn_arg) ) =>
               /\ ~fn_res.ok
               /\ fn_res.kind = "ValueError"

\* "512K" has been expanded to 524288
C6_Witness ==
    /\ pc = "expand_size_done"
    /\ fn_arg = <<"5", "1", "2", "K">>
    /\ fn_res.ok
    /\ fn_res.val = 524288

\* ------------------------------------------------------------------ claims: run_once
\* w is a throughput reading: a space, digits, a point, digits, "MiB/s"
IsReadingText(w) ==
    /\ Len(w) >= 9
    /\ w[1] = " "
    /\ SubSeq(w, Len(w) - 4, Len(w)) = MiBs
    /\ \E d \in 3..(Len(w) - 6) :
        /\ w[d] = "."
        /\ \A x \in 2..(d - 1) : IsDigit(w[x])
        /\ \A x \in (d + 1)..(Len(w) - 5) : IsDigit(w[x])

\* the numbers of all the readings the text contains
ReadingsIn(s) ==
    { SubSeq(s, a + 1, b - 5) :
        <<a, b>> \in {ab \in (1..Len(s)) \X (1..Len(s)) :
                        ab[1] < ab[2] /\ IsReadingText(SubSeq(s, ab[1], ab[2]))} }

\* the output captured as text, when the bytes printed are UTF-8
Captured == Decode(fn_arg)

\* C4: on the output of a command that exited with status 0, the result is the
\* largest of all the readings in the captured text, wherever it stands; with
\* no reading there is no result and the error is "No throughput found".
\* The captured output is the text out of line 16; bytes that are no UTF-8
\* give no such text, the decoding error is raised before line 17.
C4_MaxOfReadings ==
    pc = "run_once_done" /\ Captured.ok =>
        IF ReadingsIn(Captured.val) # {}
        THEN /\ fn_res.ok
             /\ \E x \in ReadingsIn(Captured.val) : FloatOf(x) = fn_res.val
             /\ \A x \in ReadingsIn(Captured.val) : ~FloatLess(fn_res.val, FloatOf(x))
        ELSE /\ ~fn_res.ok
             /\ fn_res.kind = "Exception"
             /\ fn_res.err = <<"No throughput found">>

\* three readings, the largest in the middle
C4_Witness ==
    /\ pc = "run_once_done"
    /\ Captured.ok
    /\ Cardinality(ReadingsIn(Captured.val)) = 3
    /\ fn_res.ok
    /\ LET m == FindAll(Captured.val, 1)
       IN  /\ Len(m) = 3
           /\ FloatOf(m[2]) = fn_res.val
           /\ FloatLess(FloatOf(m[1]), fn_res.val)
           /\ FloatLess(FloatOf(m[3]), fn_res.val)

\* ------------------------------------------------------------------ claims: vocabulary
\* everything the driver has written so far, flushed or not
Written == stdout.out \o stdout.buf

\* the first remaining argument is the separator
SeparatorFirst == rest # <<>> /\ rest[1] = Separator

ListsGiven == ~part_size.none /\ ~connections.none

\* the Cartesian product of the two lists in lexicographic order
Product ==
    LET P == part_size.list
        C == connections.list
    IN  [k \in 1..(Len(P) * Len(C)) |->
            <<P[((k - 1) \div Len(C)) + 1], C[((k - 1) % Len(C)) + 1]>>]

\* the (token, count) pairs of the trials begun so far
Attempted == [k \in 1..Len(trials) |-> <<trials[k].token, trials[k].conn>>]

TrialErrors ==
    {"CalledProcessError", "FileNotFoundError", "Exception", "ValueError",
     "UnicodeDecodeError"}

Failed(k) == trials[k].kind \in TrialErrors

RECURSIVE LinesFrom(_, _, _)
LinesFrom(text, cur, acc) ==
    IF text = <<>> THEN [lines |-> acc, tail |-> cur]
    ELSE IF Head(text) = "\n" THEN LinesFrom(Tail(text), <<>>, Append(acc, cur))
    ELSE LinesFrom(Tail(text), Append(cur, Head(text)), acc)

\* the complete lines of a text (without their newlines)
Lines(text) == LinesFrom(text, <<>>, <<>>).lines

\* what follows the last newline of a text
OpenLine(text) == LinesFrom(text, <<>>, <<>>).tail

HeaderLine == <<"part size", "\t", "connections per vip", "\t", "max throughput">>

\* the row of a finished trial, as the table should show it
RowOf(t) ==
    t.token \o <<"\t">> \o Str(t.conn) \o <<"\t">>
        \o (IF t.kind = "ok" THEN t.text ELSE <<"failed (">> \o t.text \o <<")">>)

Normal == pc = "terminated" /\ uncaught = "none"

\* ------------------------------------------------------------------ claims: the sweep
\* C1: an error raised while running one trial (non-zero exit, command not
\* found, no reading, malformed token) is caught at that trial: its row is the
\* original token, the count and "failed (<description>)"; the sweep goes on to
\* every later combination and is never ended by such an error.
C1_FailureIsolation ==
    /\ LET lines == Lines(Written)
       IN  \A k \in 1..Len(trials) :
            trials[k].kind \notin {"pending", "ok"} =>
                /\ Failed(k)
                /\ trials[k].text # <<>>
                /\ Len(lines) >= k + 1
                /\ lines[k + 1] = RowOf(trials[k])
                /\ uncaught = "none"
    /\ (pc = "terminated" /\ trials # <<>>) => uncaught = "none" /\ Attempted = Product

\* a sweep has ended in which an early trial failed and a later one succeeded
C1_Witness ==
    /\ Normal
    /\ Len(trials) = 4
    /\ trials[1].kind = "ValueError"
    /\ trials[3].kind \in {"CalledProcessError", "Exception"}
    /\ trials[4].kind = "ok"

\* C2: given both lists and the separator, and every external process exiting,
\* the sweep eventually finishes, and the trials it has then attempted are the
\* Cartesian product of the lists in lexicographic order: each combination
\* once, none skipped, retried or out of order.
C2_ProductOrder ==
    (pc = "main" /\ ListsGiven /\ SeparatorFirst) ~> (Normal /\ Attempted = Product)

\* a 2 x 2 sweep has ended, with a failed and a successful trial
C2_Witness ==
    /\ Normal
    /\ Len(part_size.list) = 2
    /\ Len(connections.list) = 2
    /\ part_size.list[1] # part_size.list[2]
    /\ connections.list = <<20, 10>>
    /\ Len(trials) = 4
    /\ trials[1].kind = "Exception"
    /\ trials[4].kind = "ok"

\* the byte counts of the tokens of the sweeps, written out
BytesText(token) ==
    CASE token = <<"5", "1", "2", "K">> -> <<"5", "2", "4", "2", "8", "8">>
      [] token = <<"1", "M">> -> <<"1", "0", "4", "8", "5", "7", "6">>
      [] OTHER -> <<"?">>

\* C3: every command spawned is the template followed by "--part-size", the
\* byte count of the trial's token (not the token), "--connections-per-vip" and
\* the count, in that order; the template is never modified, so each command
\* is four arguments longer than the template.
C3_CommandShape ==
    /\ \A n \in 1..Len(spawned) :
        LET a == spawned[n].argv
            t == trials[spawned[n].k]
            T == Tail(rest)
        IN  /\ Len(a) = Len(T) + 4
            /\ SubSeq(a, 1, Len(T)) = T
            /\ a[Len(T) + 1] = <<"--part-size">>
            /\ a[Len(T) + 2] = BytesText(t.token)
            /\ a[Len(T) + 2] = Str(expand_size(t.token).val)
            /\ a[Len(T) + 2] # t.token
            /\ a[Len(T) + 3] = <<"--connections-per-vip">>
            /\ a[Len(T) + 4] = Str(t.conn)
    /\ pc \notin {"main", "terminated"} => cmd = Tail(rest)
    /\ (pc = "terminated" /\ SeparatorFirst) => cmd = Tail(rest)

\* a third command has been spawned from a template with fixed flags
C3_Witness ==
    /\ Len(spawned) >= 3
    /\ Len(Tail(rest)) = 3
    /\ spawned[3].argv[5] = <<"1", "0", "4", "8", "5", "7", "6">>
    /\ spawned[1].argv[5] = <<"5", "2", "4", "2", "8", "8">>

\* what the driver has written is the header and the rows of the trials in
\* order, the last one open while its trial is pending
TableSoFar ==
    HeaderLine \o NL
        \o Concat([k \in 1..Len(trials) |->
                     IF trials[k].kind = "pending"
                     THEN Prefix(trials[k].token, trials[k].conn)
                     ELSE RowOf(trials[k]) \o NL])

\* C5: the prefix of a trial's row (original token, tab, count, tab) has reached
\* standard output before the trial's process is spawned; the driver waits for
\* the process; the result of the trial is written after the exit and before
\* the next prefix.  So at most one process is in flight and every result stands
\* on its own trial's row.
C5_TrialOrdering ==
    /\ Len(running) <= 1
    /\ running # <<>> =>
        /\ pc = "waiting"
        /\ Head(running).k = Len(trials)
        /\ trials[Len(trials)].kind = "pending"
        /\ stdout.buf = <<>>
        /\ IsSuffix(Prefix(trials[Len(trials)].token, trials[Len(trials)].conn),
                    stdout.out)
    /\ \A n \in 1..Len(spawned) :
        n < Len(spawned) \/ running = <<>> => trials[spawned[n].k].kind # "pending"
    /\ \A k \in 1..(Len(trials) - 1) : trials[k].kind # "pending"
    /\ trials # <<>> => Written = TableSoFar
    /\ (trials # <<>> /\ pc # "try" /\ running = <<>>) =>
            trials[Len(trials)].kind # "pending"

\* the process of the second trial is in flight, after a first trial that succeeded
C5_Witness ==
    /\ Len(running) = 1
    /\ Len(trials) = 2
    /\ trials[1].kind = "ok"
    /\ ~line_buffered

RECURSIVE Count(_, _)
Count(text, atom) ==
    IF text = <<>> THEN 0
    ELSE (IF Head(text) = atom THEN 1 ELSE 0) + Count(Tail(text), atom)

\* C7: the header line is written exactly once, before any trial output and
\* before any process is spawned, whatever the trials do; when the sweep is done
\* standard output is the header and exactly |P| * |C| complete rows, one per
\* trial in iteration order, each with its trial's token and count.
C7_OutputShape ==
    /\ Count(Written, "part size") <= 1
    /\ Written # <<>> => IsPrefix(HeaderLine \o NL, Written)
    /\ trials # <<>> => IsPrefix(HeaderLine \o NL, stdout.out)
    /\ spawned # <<>> => IsPrefix(HeaderLine \o NL, stdout.out)
    /\ pc \notin {"main", "run_sweep"} /\ SeparatorFirst => Count(Written, "part size") = 1
    /\ Normal =>
        LET lines == Lines(stdout.out)
            grid == Product
        IN  /\ stdout.buf = <<>>
            /\ OpenLine(stdout.out) = <<>>
            /\ Len(lines) = 1 + Len(part_size.list) * Len(connections.list)
            /\ lines[1] = HeaderLine
            /\ \A k \in 1..(Len(part_size.list) * Len(connections.list)) :
                /\ IsPrefix(grid[k][1] \o <<"\t">> \o Str(grid[k][2]) \o <<"\t">>,
                            lines[k + 1])
                /\ Len(lines[k + 1]) > Len(grid[k][1]) + Len(Str(grid[k][2])) + 2

\* a sweep of two part sizes and two counts has ended, on a pipe
C7_Witness ==
    /\ Normal
    /\ ~line_buffered
    /\ Len(part_size.list) = 2
    /\ Len(connections.list) = 2
    /\ Len(Lines(stdout.out)) = 5
    /\ trials[2].kind = "ok"
    /\ trials[4].kind # "ok"

\* C8: when the token after the two options is absent or is not "--", the
\* process fails before run_sweep: no header is printed, no trial is begun and
\* no command is spawned.
C8_SeparatorRequired ==
    ~SeparatorFirst =>
        /\ pc \in {"main", "terminated"}
        /\ pc = "terminated" => uncaught \in {"IndexError", "Exception"}
        /\ Written = <<>>
        /\ trials = <<>>
        /\ spawned = <<>>

\* the process has ended on the separator check, with the separator further on
C8_Witness ==
    /\ pc = "terminated"
    /\ uncaught = "Exception"
    /\ Len(rest) = 3
    /\ rest[2] = Separator
    /\ ListsGiven

\* C9: the process ends through an unhandled error only if the separator is
\* missing; with the separator present the sweep runs to its end and the
\* process terminates normally, whatever the option lists hold.
C9_OnlySeparatorFatal ==
    /\ uncaught # "none" => ~SeparatorFirst
    /\ (pc = "terminated" /\ SeparatorFirst) => uncaught = "none"

\* C10: a malformed token is found at the trial that uses it, not before: the
\* header and the rows of all earlier trials are already out and the earlier
\* processes have run; and for that trial no process is spawned: a process is
\* only ever spawned with the byte count of a token that expanded.
C10_LazyExpansion ==
    /\ \A n \in 1..Len(spawned) :
        LET t == trials[spawned[n].k]
        IN  /\ expand_size(t.token).ok
            /\ t.kind # "ValueError"
            /\ spawned[n].argv[Len(spawned[n].argv) - 2] = Str(expand_size(t.token).val)
    /\ LET lines == Lines(stdout.out)
       IN  \A k \in 1..Len(trials) :
        ~expand_size(trials[k].token).ok =>
            /\ trials[k].kind \in {"pending", "ValueError"}
            /\ \A n \in 1..Len(spawned) : spawned[n].k # k
            /\ IsPrefix(HeaderLine \o NL, stdout.out)
            /\ Len(lines) >= k
            /\ \A e \in 1..(k - 1) :
                /\ trials[e].kind # "pending"
                /\ lines[e + 1] = RowOf(trials[e])
                /\ ( /\ expand_size(trials[e].token).ok
                     /\ Tail(rest) # <<>>
                     /\ Head(Tail(rest)) \in Executables ) =>
                        \E n \in 1..Len(spawned) : spawned[n].k = e
    /\ (pc = "run_sweep" /\ ListsGiven) => uncaught = "none"

\* a malformed third token has failed after two trials whose processes ran
C10_Witness ==
    /\ Len(trials) = 3
    /\ trials[3].kind = "ValueError"
    /\ Len(spawned) = 2
    /\ trials[1].kind = "ok"
    /\ pc = "for_connections"

====
